---- MODULE Spec2Model ----
(***************************************************************************)
(* Model of scraper.py (Collinsvfx/48remote): the job-board scraper that   *)
(* normalises "time posted" strings, filters to a 48 hour window, and      *)
(* merges the per-board results into one deduplicated, sorted feed.        *)
(*                                                                         *)
(* Representation.  A Python str is a sequence of one-character strings,   *)
(* so that lower(), strip(), startswith(), concatenation and the regular   *)
(* expressions act on characters as they do in the code.  A datetime is a  *)
(* record [sec, micro]: whole seconds since 1970-01-01 00:00:00 (naive     *)
(* local time) and the sub-second part, in units of 1/MicroRes second.     *)
(* An Optional value is a record with the field has.                       *)
(***************************************************************************)
EXTENDS Integers, Sequences, FiniteSets, TLC

(***************************************************************************)
(* Bounds of the model.                                                    *)
(***************************************************************************)
\* sub-second resolution of the clock (ticks per second)
MicroRes == 2
\* most listing containers one page (or one selector set) yields
MaxItems == 2
\* most listing containers the sites show in all during an explored run
MaxSeen == 2
\* seconds from one entry's clock reading to the next in an explored run
EntrySeconds == 60
\* most records of a pool handed to the aggregation on its own
MaxPool == 3

(***************************************************************************)
(* str: characters and the str methods the code uses.                      *)
(***************************************************************************)
Digits == <<"0", "1", "2", "3", "4", "5", "6", "7", "8", "9">>
UpperAlpha == <<"A", "B", "C", "D", "E", "F", "G", "H", "I", "J", "K", "L", "M",
                "N", "O", "P", "Q", "R", "S", "T", "U", "V", "W", "X", "Y", "Z">>
LowerAlpha == <<"a", "b", "c", "d", "e", "f", "g", "h", "i", "j", "k", "l", "m",
                "n", "o", "p", "q", "r", "s", "t", "u", "v", "w", "x", "y", "z">>

SetMin(S) == CHOOSE x \in S : \A y \in S : x <= y
SetMax(S) == CHOOSE x \in S : \A y \in S : x >= y

IsDigit(c) == \E i \in 1..10 : Digits[i] = c
DigitVal(c) == (CHOOSE i \in 1..10 : Digits[i] = c) - 1
\* \s of the re module, and the whitespace str.strip() removes
IsSpace(c) == c \in {" ", "\t", "\n"}

LowerChar(c) ==
    IF \E i \in 1..26 : UpperAlpha[i] = c
    THEN LowerAlpha[CHOOSE i \in 1..26 : UpperAlpha[i] = c]
    ELSE c
UpperChar(c) ==
    IF \E i \in 1..26 : LowerAlpha[i] = c
    THEN UpperAlpha[CHOOSE i \in 1..26 : LowerAlpha[i] = c]
    ELSE c

\* s.lower()
lower(s) == [i \in 1..Len(s) |-> LowerChar(s[i])]
\* s.capitalize()
capitalize(s) == [i \in 1..Len(s) |-> IF i = 1 THEN UpperChar(s[i]) ELSE LowerChar(s[i])]
\* s.strip()
strip(s) ==
    LET keep == {i \in 1..Len(s) : ~IsSpace(s[i])}
    IN  IF keep = {} THEN <<>> ELSE SubSeq(s, SetMin(keep), SetMax(keep))
\* s.strip(chars), chars a set of characters
strip_chars(s, chars) ==
    LET keep == {i \in 1..Len(s) : s[i] \notin chars}
    IN  IF keep = {} THEN <<>> ELSE SubSeq(s, SetMin(keep), SetMax(keep))
\* p occurs in s at index i
HasAt(s, i, p) == /\ i >= 1
                  /\ i + Len(p) - 1 <= Len(s)
                  /\ SubSeq(s, i, i + Len(p) - 1) = p
\* s.startswith(p)
startswith(s, p) == HasAt(s, 1, p)
\* s.find(p) + 1: the first index where p occurs in s, 0 when it does not
find(s, p) ==
    LET at == {i \in 1..(Len(s) + 1) : HasAt(s, i, p)}
    IN  IF at = {} THEN 0 ELSE SetMin(at)
\* p in s
contains(s, p) == find(s, p) # 0
\* s.replace(p, r, 1)
replace_first(s, p, r) ==
    LET i == find(s, p)
    IN  IF i = 0 THEN s
        ELSE SubSeq(s, 1, i - 1) \o r \o SubSeq(s, i + Len(p), Len(s))
\* s.replace(a, b) for single characters a, b
replace_char(s, a, b) == [i \in 1..Len(s) |-> IF s[i] = a THEN b ELSE s[i]]
\* int(s) for a non-empty string of digits
RECURSIVE int(_)
int(s) == IF Len(s) = 0 THEN 0
          ELSE 10 * int(SubSeq(s, 1, Len(s) - 1)) + DigitVal(s[Len(s)])

\* the index of the last character of the run of digits that starts at i
DigitRunEnd(s, i) ==
    SetMax({j \in i..Len(s) : \A k \in i..j : IsDigit(s[k])})
\* the length of the run of digits that starts at i (0 when s[i] is no digit)
DigitRun(s, i) ==
    IF i >= 1 /\ i <= Len(s) /\ IsDigit(s[i]) THEN DigitRunEnd(s, i) - i + 1 ELSE 0
\* the first index from i on that holds no whitespace (Len(s) + 1 at the end): \s*
SkipSpaces(s, i) ==
    SetMin({j \in i..(Len(s) + 1) : j = Len(s) + 1 \/ ~IsSpace(s[j])})

(***************************************************************************)
(* datetime: the proleptic Gregorian calendar of the datetime module.      *)
(***************************************************************************)
IsLeap(y) == (y % 4 = 0 /\ y % 100 # 0) \/ y % 400 = 0
DaysInMonth(y, m) ==
    IF m = 2 THEN (IF IsLeap(y) THEN 29 ELSE 28)
    ELSE IF m \in {4, 6, 9, 11} THEN 30 ELSE 31
\* days from 1970-01-01 to the civil date y-m-d
DaysFromCivil(y, m, d) ==
    LET yy  == IF m <= 2 THEN y - 1 ELSE y
        era == yy \div 400
        yoe == yy - era * 400
        mp  == IF m > 2 THEN m - 3 ELSE m + 9
        doy == (153 * mp + 2) \div 5 + d - 1
        doe == yoe * 365 + yoe \div 4 - yoe \div 100 + doy
    IN  era * 146097 + doe - 719468
\* the civil date [y, m, d] of the day z days after 1970-01-01
CivilFromDays(z) ==
    LET zz  == z + 719468
        era == zz \div 146097
        doe == zz - era * 146097
        yoe == (doe - doe \div 1460 + doe \div 36524 - doe \div 146096) \div 365
        doy == doe - (365 * yoe + yoe \div 4 - yoe \div 100)
        mp  == (5 * doy + 2) \div 153
        d   == doy - (153 * mp + 2) \div 5 + 1
        m   == IF mp < 10 THEN mp + 3 ELSE mp - 9
        y   == yoe + era * 400
    IN  [y |-> IF m <= 2 THEN y + 1 ELSE y, m |-> m, d |-> d]

\* datetime(y, m, d, hh, mm, ss, micro)
DateTime(y, m, d, hh, mm, ss, micro) ==
    [sec |-> DaysFromCivil(y, m, d) * 86400 + hh * 3600 + mm * 60 + ss, micro |-> micro]
\* dt.year
YearOf(dt) == CivilFromDays(dt.sec \div 86400).y
\* a < b, a <= b, a > b on datetimes
DtLess(a, b) == a.sec < b.sec \/ (a.sec = b.sec /\ a.micro < b.micro)
DtLessEq(a, b) == a = b \/ DtLess(a, b)
DtGreater(a, b) == DtLess(b, a)
\* timedelta(minutes=, hours=, days=, weeks=) in seconds
timedelta(unit, value) ==
    value * (CASE unit = "minutes" -> 60
               [] unit = "hours" -> 3600
               [] unit = "days" -> 86400
               [] unit = "weeks" -> 604800)
\* dt - timedelta
DtMinus(dt, seconds) == [sec |-> dt.sec - seconds, micro |-> dt.micro]

\* str(n) zero-padded to w digits, n >= 0
RECURSIVE Pad(_, _)
Pad(n, w) == IF w = 0 THEN <<>> ELSE Pad(n \div 10, w - 1) \o <<Digits[(n % 10) + 1]>>
\* dt.strftime('%Y-%m-%d %H:%M:%S'): the microseconds are not written
strftime(dt) ==
    LET c   == CivilFromDays(dt.sec \div 86400)
        rem == dt.sec % 86400
    IN  Pad(c.y, 4) \o <<"-">> \o Pad(c.m, 2) \o <<"-">> \o Pad(c.d, 2) \o <<" ">>
        \o Pad(rem \div 3600, 2) \o <<":">> \o Pad((rem % 3600) \div 60, 2)
        \o <<":">> \o Pad(rem % 60, 2)
\* datetime.strptime(s, '%Y-%m-%d %H:%M:%S') of a string strftime wrote
strptime(s) ==
    DateTime(int(SubSeq(s, 1, 4)), int(SubSeq(s, 6, 7)), int(SubSeq(s, 9, 10)),
             int(SubSeq(s, 12, 13)), int(SubSeq(s, 15, 16)), int(SubSeq(s, 18, 19)), 0)

\* Optional[datetime]
None == [has |-> FALSE]
Some(dt) == [has |-> TRUE, dt |-> dt]

(***************************************************************************)
(* parse_job_time: the regular expressions and strptime formats.           *)
(***************************************************************************)
NoMatch == [ok |-> FALSE]
\* re.search: the match at the leftmost index, at[i] being the match tried at index i
re_search(at) ==
    LET hits == {i \in DOMAIN at : at[i].ok}
    IN  IF hits = {} THEN NoMatch ELSE at[SetMin(hits)]

WordUnits == <<<<"m", "i", "n", "u", "t", "e">>, <<"h", "o", "u", "r">>, <<"d", "a", "y">>, <<"w", "e", "e", "k">>>>
ShortUnits == <<<<"m">>, <<"h">>, <<"d">>, <<"w">>>>
UnitNames == <<"minutes", "hours", "days", "weeks">>
\* (\d+)\s*(u1|u2|u3|u4)s?\s*ago at index i; the s? only when plural
MatchUnitAgo(s, i, units, plural) ==
    LET n == DigitRun(s, i)
        k == SkipSpaces(s, i + n)
        us == {u \in 1..Len(units) : HasAt(s, k, units[u])}
        u == SetMin(us)
        e == k + Len(units[u])
        e2 == IF plural /\ HasAt(s, e, <<"s">>) THEN e + 1 ELSE e
        e3 == SkipSpaces(s, e2)
    IN  IF n = 0 \/ us = {} THEN NoMatch
        ELSE IF HasAt(s, e3, <<"a", "g", "o">>)
             THEN [ok |-> TRUE, value |-> int(SubSeq(s, i, i + n - 1)), unit |-> UnitNames[u]]
             ELSE NoMatch
\* r'(\d+)\s*(minute|hour|day|week)s?\s*ago'
RelativeAt(s, i) == MatchUnitAgo(s, i, WordUnits, TRUE)
\* ShorthandAt reading m as hours and h as minutes (C11 fails under it)
ShorthandAt_m_h_swapped(s, i) ==
    MatchUnitAgo(s, i, <<<<"h">>, <<"m">>, <<"d">>, <<"w">>>>, FALSE)
\* r'(\d+)\s*(m|h|d|w)\s*ago'
ShorthandAt(s, i) == MatchUnitAgo(s, i, ShortUnits, FALSE)

Least(a, b) == IF a < b THEN a ELSE b
IsDateSep(s, i) == i <= Len(s) /\ s[i] \in {"/", "-"}
\* r'(\d{1,2}[/-]\d{1,2}[/-]\d{2,4})' at index i; text is group(1)
AbsoluteAt(s, i) ==
    LET n1 == Least(DigitRun(s, i), 2)
        a  == i + n1
        n2 == Least(DigitRun(s, a + 1), 2)
        b  == a + 1 + n2
        n3 == Least(DigitRun(s, b + 1), 4)
    IN  IF n1 >= 1 /\ IsDateSep(s, a) /\ n2 >= 1 /\ IsDateSep(s, b) /\ n3 >= 2
        THEN [ok |-> TRUE, text |-> SubSeq(s, i, b + n3)]
        ELSE NoMatch

\* one directive of a strptime format against the field p (p must be consumed whole)
FieldOK(code, p) ==
    /\ \A k \in 1..Len(p) : IsDigit(p[k])
    /\ CASE code = "Y" -> Len(p) = 4
         [] code = "y" -> Len(p) = 2
         [] code = "m" -> Len(p) \in 1..2 /\ int(p) \in 1..12
         [] code = "d" -> Len(p) \in 1..2 /\ int(p) \in 1..31
\* the value of the year field: %y maps 69..99 to 19xx and 0..68 to 20xx
YearValue(code, p) ==
    IF code = "Y" THEN int(p) ELSE IF int(p) >= 69 THEN 1900 + int(p) ELSE 2000 + int(p)
\* date_part.split('-')
RECURSIVE SplitDash(_)
SplitDash(s) ==
    LET i == find(s, <<"-">>)
    IN  IF i = 0 THEN <<s>>
        ELSE <<SubSeq(s, 1, i - 1)>> \o SplitDash(SubSeq(s, i + 1, Len(s)))
\* datetime.strptime(date_part, fmt) for a format of three directives joined by '-',
\* fmt the three directive letters; ok = FALSE stands for ValueError
strptime_date(date_part, fmt) ==
    LET f == SplitDash(date_part)
        yi == CHOOSE k \in 1..3 : fmt[k] \in {"Y", "y"}
        mi == CHOOSE k \in 1..3 : fmt[k] = "m"
        di == CHOOSE k \in 1..3 : fmt[k] = "d"
        y == YearValue(fmt[yi], f[yi])
        m == int(f[mi])
        d == int(f[di])
    IN  IF /\ Len(f) = 3
           /\ \A k \in 1..3 : FieldOK(fmt[k], f[k])
           /\ y >= 1
           /\ d <= DaysInMonth(y, m)
        THEN [ok |-> TRUE, dt |-> DateTime(y, m, d, 0, 0, 0, 0)]
        ELSE NoMatch
\* formats = ['%Y-%m-%d', '%m-%d-%Y', '%y-%m-%d', '%m-%d-%y']
formats == <<<<"Y", "m", "d">>, <<"m", "d", "Y">>, <<"y", "m", "d">>, <<"m", "d", "y">>>>

MonthAbbr == <<<<"j", "a", "n">>, <<"f", "e", "b">>, <<"m", "a", "r">>, <<"a", "p", "r">>, <<"m", "a", "y">>, <<"j", "u", "n">>, <<"j", "u", "l">>, <<"a", "u", "g">>, <<"s", "e", "p">>, <<"o", "c", "t">>, <<"n", "o", "v">>, <<"d", "e", "c">>>>
\* r'(jan|feb|...|dec)\s+\d{1,2}' at index i; text is group(0)
MonthDayAt(s, i) ==
    LET ms == {m \in 1..12 : HasAt(s, i, MonthAbbr[m])}
        k  == SkipSpaces(s, i + 3)
        n  == Least(DigitRun(s, k), 2)
    IN  IF ms # {} /\ k > i + 3 /\ n >= 1
        THEN [ok |-> TRUE, text |-> SubSeq(s, i, k + n - 1)]
        ELSE NoMatch
\* datetime.strptime(text, '%b %d'): the year defaults to 1900, so Feb 29 is a
\* ValueError; ok = FALSE stands for ValueError
strptime_b_d(text) ==
    LET t  == lower(text)
        ms == {m \in 1..12 : HasAt(t, 1, MonthAbbr[m])}
        m  == CHOOSE x \in ms : TRUE
        k  == SkipSpaces(t, 4)
        p  == SubSeq(t, k, Len(t))
    IN  IF ms # {} /\ k > 4 /\ Len(p) >= 1 /\ FieldOK("d", p) /\ int(p) <= DaysInMonth(1900, m)
        THEN [ok |-> TRUE, month |-> m, day |-> int(p)]
        ELSE NoMatch
\* dt.replace(year=y) of a midnight date
ReplaceYear(md, y) == DateTime(y, md.month, md.day, 0, 0, 0, 0)

\* time_str.lower().strip(), then the first 'reposted' removed
CleanTime(time_str) ==
    LET t == strip(lower(time_str))
    IN  IF contains(t, <<"r", "e", "p", "o", "s", "t", "e", "d">>) THEN strip(replace_first(t, <<"r", "e", "p", "o", "s", "t", "e", "d">>, <<>>)) ELSE t

\* the first format of formats that parses date_part, from the k-th on
RECURSIVE TryFormats(_, _)
TryFormats(date_part, k) ==
    IF k > Len(formats) THEN NoMatch
    ELSE IF strptime_date(date_part, formats[k]).ok THEN strptime_date(date_part, formats[k])
    ELSE TryFormats(date_part, k + 1)

\* TimeShape trying the shorthand form before the word form (C19 fails under it)
TimeShape_shorthand_first(time_str) ==
    LET t        == CleanTime(time_str)
        relative == re_search([i \in 1..Len(t) |-> RelativeAt(t, i)])
        short    == re_search([i \in 1..Len(t) |-> ShorthandAt(t, i)])
        absolute == re_search([i \in 1..Len(t) |-> AbsoluteAt(t, i)])
        parsed   == TryFormats(replace_char(absolute.text, "/", "-"), 1)
        monthday == re_search([i \in 1..Len(t) |-> MonthDayAt(t, i)])
        md       == strptime_b_d(capitalize(monthday.text))
    IN  IF short.ok THEN [kind |-> "shorthand", value |-> short.value, unit |-> short.unit]
        ELSE IF relative.ok THEN [kind |-> "relative", value |-> relative.value, unit |-> relative.unit]
        ELSE IF absolute.ok /\ parsed.ok THEN [kind |-> "absolute", dt |-> parsed.dt]
        ELSE IF monthday.ok /\ md.ok THEN [kind |-> "monthday", month |-> md.month, day |-> md.day]
        ELSE [kind |-> "none"]

\* The part of parse_job_time that does not read the clock: which pattern decides
\* the string, and what it captured.
TimeShape(time_str) ==
    LET t        == CleanTime(time_str)
        relative == re_search([i \in 1..Len(t) |-> RelativeAt(t, i)])
        short    == re_search([i \in 1..Len(t) |-> ShorthandAt(t, i)])
        absolute == re_search([i \in 1..Len(t) |-> AbsoluteAt(t, i)])
        parsed   == TryFormats(replace_char(absolute.text, "/", "-"), 1)
        monthday == re_search([i \in 1..Len(t) |-> MonthDayAt(t, i)])
        md       == strptime_b_d(capitalize(monthday.text))
    IN  IF relative.ok THEN [kind |-> "relative", value |-> relative.value, unit |-> relative.unit]
        ELSE IF short.ok THEN [kind |-> "shorthand", value |-> short.value, unit |-> short.unit]
        ELSE IF absolute.ok /\ parsed.ok THEN [kind |-> "absolute", dt |-> parsed.dt]
        ELSE IF monthday.ok /\ md.ok THEN [kind |-> "monthday", month |-> md.month, day |-> md.day]
        ELSE [kind |-> "none"]

\* The value parse_job_time returns for a text of the given shape.  clock holds
\* the values of datetime.now() the call reads, in the order it reads them: a
\* relative text reads the clock once; a month-name text reads it three times,
\* for the year, for the comparison and for the year to roll back from.
Resolve(shape, clock) ==
    CASE shape.kind \in {"relative", "shorthand"} ->
             Some(DtMinus(clock[1], timedelta(shape.unit, shape.value)))
      [] shape.kind = "absolute" -> Some(shape.dt)
      [] shape.kind = "monthday" ->
             IF DtGreater(ReplaceYear(shape, YearOf(clock[1])), clock[2])
             THEN Some(ReplaceYear(shape, YearOf(clock[3]) - 1))
             ELSE Some(ReplaceYear(shape, YearOf(clock[1])))
      [] OTHER -> None
\* a call during which the clock stands at now
AtOnce(now) == <<now, now, now>>
\* parse_job_time taking a text it cannot read for "just now" (C9 fails under it)
parse_job_time_or_now(time_str, now) ==
    IF TimeShape(time_str).kind = "none" THEN Some(now)
    ELSE Resolve(TimeShape(time_str), AtOnce(now))
\* parse_job_time(time_str), now being the value of datetime.now() the call reads
parse_job_time(time_str, now) == Resolve(TimeShape(time_str), AtOnce(now))

(***************************************************************************)
(* Configuration (module level of scraper.py).  Each string constant is    *)
(* spelled character by character; the comment above it gives its text.    *)
(***************************************************************************)
\* "https://dribbble.com/jobs?keyword=product+designer&location="
URL_DRIBBBLE_PRODUCT ==
    <<"h", "t", "t", "p", "s", ":", "/", "/", "d", "r", "i", "b", "b", "b", "l", "e", ".", "c",
    "o", "m", "/", "j", "o", "b", "s", "?", "k", "e", "y", "w", "o", "r", "d", "=", "p", "r",
    "o", "d", "u", "c", "t", "+", "d", "e", "s", "i", "g", "n", "e", "r", "&", "l", "o", "c",
    "a", "t", "i", "o", "n", "=">>
\* "https://dribbble.com/jobs?keyword=ui%2Fux+designer&location="
URL_DRIBBBLE_UIUX ==
    <<"h", "t", "t", "p", "s", ":", "/", "/", "d", "r", "i", "b", "b", "b", "l", "e", ".", "c",
    "o", "m", "/", "j", "o", "b", "s", "?", "k", "e", "y", "w", "o", "r", "d", "=", "u", "i",
    "%", "2", "F", "u", "x", "+", "d", "e", "s", "i", "g", "n", "e", "r", "&", "l", "o", "c",
    "a", "t", "i", "o", "n", "=">>
\* "https://www.remoterocketship.com/jobs/ui-ux-designer/?page=1&sort=DateAdded&jobTitle=UI%2FUX+Designer"
URL_REMOTEROCKETSHIP ==
    <<"h", "t", "t", "p", "s", ":", "/", "/", "w", "w", "w", ".", "r", "e", "m", "o", "t", "e",
    "r", "o", "c", "k", "e", "t", "s", "h", "i", "p", ".", "c", "o", "m", "/", "j", "o", "b",
    "s", "/", "u", "i", "-", "u", "x", "-", "d", "e", "s", "i", "g", "n", "e", "r", "/", "?",
    "p", "a", "g", "e", "=", "1", "&", "s", "o", "r", "t", "=", "D", "a", "t", "e", "A", "d",
    "d", "e", "d", "&", "j", "o", "b", "T", "i", "t", "l", "e", "=", "U", "I", "%", "2", "F",
    "U", "X", "+", "D", "e", "s", "i", "g", "n", "e", "r">>
\* "https://builtin.com/jobs/remote?search=ui%2Fux+designer&country=USA&allLocations=true"
URL_BUILTIN ==
    <<"h", "t", "t", "p", "s", ":", "/", "/", "b", "u", "i", "l", "t", "i", "n", ".", "c", "o",
    "m", "/", "j", "o", "b", "s", "/", "r", "e", "m", "o", "t", "e", "?", "s", "e", "a", "r",
    "c", "h", "=", "u", "i", "%", "2", "F", "u", "x", "+", "d", "e", "s", "i", "g", "n", "e",
    "r", "&", "c", "o", "u", "n", "t", "r", "y", "=", "U", "S", "A", "&", "a", "l", "l", "L",
    "o", "c", "a", "t", "i", "o", "n", "s", "=", "t", "r", "u", "e">>
\* "https://up2staff.com/"
URL_UP2STAFF ==
    <<"h", "t", "t", "p", "s", ":", "/", "/", "u", "p", "2", "s", "t", "a", "f", "f", ".", "c",
    "o", "m", "/">>
\* "https://weworkremotely.com/remote-jobs/search?term=ui+ux+designer"
URL_WEWORKREMOTELY ==
    <<"h", "t", "t", "p", "s", ":", "/", "/", "w", "e", "w", "o", "r", "k", "r", "e", "m", "o",
    "t", "e", "l", "y", ".", "c", "o", "m", "/", "r", "e", "m", "o", "t", "e", "-", "j", "o",
    "b", "s", "/", "s", "e", "a", "r", "c", "h", "?", "t", "e", "r", "m", "=", "u", "i", "+",
    "u", "x", "+", "d", "e", "s", "i", "g", "n", "e", "r">>
\* "https://justremote.co/remote-ui-ux-jobs"
URL_JUSTREMOTE ==
    <<"h", "t", "t", "p", "s", ":", "/", "/", "j", "u", "s", "t", "r", "e", "m", "o", "t", "e",
    ".", "c", "o", "/", "r", "e", "m", "o", "t", "e", "-", "u", "i", "-", "u", "x", "-", "j",
    "o", "b", "s">>
\* "https://remote4africa.com/jobs/search?q=ui%2Fux+designer"
URL_REMOTE4AFRICA ==
    <<"h", "t", "t", "p", "s", ":", "/", "/", "r", "e", "m", "o", "t", "e", "4", "a", "f", "r",
    "i", "c", "a", ".", "c", "o", "m", "/", "j", "o", "b", "s", "/", "s", "e", "a", "r", "c",
    "h", "?", "q", "=", "u", "i", "%", "2", "F", "u", "x", "+", "d", "e", "s", "i", "g", "n",
    "e", "r">>
\* "https://www.realworkfromanywhere.com/remote-product-designer-jobs"
URL_REALWORKFROMANYWHERE ==
    <<"h", "t", "t", "p", "s", ":", "/", "/", "w", "w", "w", ".", "r", "e", "a", "l", "w", "o",
    "r", "k", "f", "r", "o", "m", "a", "n", "y", "w", "h", "e", "r", "e", ".", "c", "o", "m",
    "/", "r", "e", "m", "o", "t", "e", "-", "p", "r", "o", "d", "u", "c", "t", "-", "d", "e",
    "s", "i", "g", "n", "e", "r", "-", "j", "o", "b", "s">>
\* "https://productjobsanywhere.com/jobs/product-designers/?utm_source=chatgpt.com"
URL_PRODUCTJOBSANYWHERE ==
    <<"h", "t", "t", "p", "s", ":", "/", "/", "p", "r", "o", "d", "u", "c", "t", "j", "o", "b",
    "s", "a", "n", "y", "w", "h", "e", "r", "e", ".", "c", "o", "m", "/", "j", "o", "b", "s",
    "/", "p", "r", "o", "d", "u", "c", "t", "-", "d", "e", "s", "i", "g", "n", "e", "r", "s",
    "/", "?", "u", "t", "m", "_", "s", "o", "u", "r", "c", "e", "=", "c", "h", "a", "t", "g",
    "p", "t", ".", "c", "o", "m">>

JOB_URL_CONFIGS == <<
    [url |-> URL_DRIBBBLE_PRODUCT, type |-> "dribbble"],
    [url |-> URL_DRIBBBLE_UIUX, type |-> "dribbble"],
    [url |-> URL_REMOTEROCKETSHIP, type |-> "remoterocketship"],
    [url |-> URL_BUILTIN, type |-> "builtin"],
    [url |-> URL_UP2STAFF, type |-> "up2staff_api"],
    [url |-> URL_WEWORKREMOTELY, type |-> "weworkremotely"],
    [url |-> URL_JUSTREMOTE, type |-> "justremote"],
    [url |-> URL_REMOTE4AFRICA, type |-> "remote4africa"],
    [url |-> URL_REALWORKFROMANYWHERE, type |-> "realworkfromanywhere"],
    [url |-> URL_PRODUCTJOBSANYWHERE, type |-> "productjobsanywhere"] >>

\* "https://www.remoterocketship.com"
RR_URL_BASE ==
    <<"h", "t", "t", "p", "s", ":", "/", "/", "w", "w", "w", ".", "r", "e", "m", "o", "t", "e",
    "r", "o", "c", "k", "e", "t", "s", "h", "i", "p", ".", "c", "o", "m">>
\* "RemoteRocketship"
SRC_REMOTEROCKETSHIP ==
    <<"R", "e", "m", "o", "t", "e", "R", "o", "c", "k", "e", "t", "s", "h", "i", "p">>
\* "Dribbble"
SRC_DRIBBBLE ==
    <<"D", "r", "i", "b", "b", "b", "l", "e">>
\* "BuiltIn"
SRC_BUILTIN ==
    <<"B", "u", "i", "l", "t", "I", "n">>
\* "WeWorkRemotely"
SRC_WEWORKREMOTELY ==
    <<"W", "e", "W", "o", "r", "k", "R", "e", "m", "o", "t", "e", "l", "y">>
\* "Just Remote"
SRC_JUSTREMOTE ==
    <<"J", "u", "s", "t", " ", "R", "e", "m", "o", "t", "e">>
\* "Remote4Africa"
SRC_REMOTE4AFRICA ==
    <<"R", "e", "m", "o", "t", "e", "4", "A", "f", "r", "i", "c", "a">>
\* "Real Work From Anywhere"
SRC_REALWORKFROMANYWHERE ==
    <<"R", "e", "a", "l", " ", "W", "o", "r", "k", " ", "F", "r", "o", "m", " ", "A", "n", "y",
    "w", "h", "e", "r", "e">>
\* "Product Jobs Anywhere"
SRC_PRODUCTJOBSANYWHERE ==
    <<"P", "r", "o", "d", "u", "c", "t", " ", "J", "o", "b", "s", " ", "A", "n", "y", "w", "h",
    "e", "r", "e">>
\* "Up2Staff"
SRC_UP2STAFF ==
    <<"U", "p", "2", "S", "t", "a", "f", "f">>
\* "https://dribbble.com"
BASE_DRIBBBLE ==
    <<"h", "t", "t", "p", "s", ":", "/", "/", "d", "r", "i", "b", "b", "b", "l", "e", ".", "c",
    "o", "m">>
\* "https://builtin.com"
BASE_BUILTIN ==
    <<"h", "t", "t", "p", "s", ":", "/", "/", "b", "u", "i", "l", "t", "i", "n", ".", "c", "o",
    "m">>
\* "https://weworkremotely.com"
BASE_WEWORKREMOTELY ==
    <<"h", "t", "t", "p", "s", ":", "/", "/", "w", "e", "w", "o", "r", "k", "r", "e", "m", "o",
    "t", "e", "l", "y", ".", "c", "o", "m">>
\* "https://justremote.co"
BASE_JUSTREMOTE ==
    <<"h", "t", "t", "p", "s", ":", "/", "/", "j", "u", "s", "t", "r", "e", "m", "o", "t", "e",
    ".", "c", "o">>
\* "https://remote4africa.com"
BASE_REMOTE4AFRICA ==
    <<"h", "t", "t", "p", "s", ":", "/", "/", "r", "e", "m", "o", "t", "e", "4", "a", "f", "r",
    "i", "c", "a", ".", "c", "o", "m">>
\* "https://www.realworkfromanywhere.com"
BASE_REALWORKFROMANYWHERE ==
    <<"h", "t", "t", "p", "s", ":", "/", "/", "w", "w", "w", ".", "r", "e", "a", "l", "w", "o",
    "r", "k", "f", "r", "o", "m", "a", "n", "y", "w", "h", "e", "r", "e", ".", "c", "o", "m">>
\* "Remote/Global"
REMOTE_GLOBAL ==
    <<"R", "e", "m", "o", "t", "e", "/", "G", "l", "o", "b", "a", "l">>
\* "Remote/Africa"
REMOTE_AFRICA ==
    <<"R", "e", "m", "o", "t", "e", "/", "A", "f", "r", "i", "c", "a">>
\* "Remote/Worldwide"
REMOTE_WORLDWIDE ==
    <<"R", "e", "m", "o", "t", "e", "/", "W", "o", "r", "l", "d", "w", "i", "d", "e">>
\* "N/A"
N_A ==
    <<"N", "/", "A">>
\* "/jobs/"
SLASH_JOBS ==
    <<"/", "j", "o", "b", "s", "/">>
\* "Remote"
REMOTE ==
    <<"R", "e", "m", "o", "t", "e">>

\* the selector sets of RemoteRocketship: the entries the model reads
RR_SELECTORS_V1 == [url_base |-> RR_URL_BASE, source |-> SRC_REMOTEROCKETSHIP, version |-> "V1"]
RR_SELECTORS_V2 == [url_base |-> RR_URL_BASE, source |-> SRC_REMOTEROCKETSHIP, version |-> "V2"]
RR_ALL_SELECTORS == <<RR_SELECTORS_V1, RR_SELECTORS_V2>>

\* SKIP_PATHS of scrape_up2staff_api_jobs
SKIP_PATHS == {<<"/", "c", "a", "r", "t">>,
               <<"/", "c", "h", "e", "c", "k", "o", "u", "t">>,
               <<"/", "j", "o", "b", "s", "-", "d", "a", "s", "h", "b", "o", "a", "r", "d">>,
               <<"/", "m", "y", "a", "c", "c", "o", "u", "n", "t">>,
               <<"/", "m", "a", "l", "t", "i", "n", "g", "s">>,
               <<"/", "p", "o", "s", "t", "-", "a", "-", "j", "o", "b">>}

browser_required_types ==
    {"dribbble", "remoterocketship", "builtin", "weworkremotely", "justremote",
     "remote4africa", "realworkfromanywhere", "productjobsanywhere"}

\* TIME_THRESHOLD = datetime.now() - timedelta(hours=48): the 48
ThresholdHours == 48

(***************************************************************************)
(* State.                                                                  *)
(***************************************************************************)
VARIABLES
    pc,              \* where scrape_all_jobs stands
    idx,             \* the index in JOB_URL_CONFIGS of the entry being processed
    browser,         \* the shared browser: "none", "open" or "closed"
    tabs,            \* the entries whose tab (page) is open
    jobs,            \* the list the adapter returned for the current entry
    all_jobs,        \* the raw pool
    feed,            \* jobs.json: [written |-> FALSE] or [written |-> TRUE, jobs |-> list]
    TIME_THRESHOLD,  \* the module-level cutoff, fixed when the module is loaded
    error,           \* the call whose exception reached the except clause of scrape_all_jobs
    call,            \* what the adapter call of the current entry did
    seen,            \* how many listing containers the sites have shown so far
    posted_text,     \* parse_job_time on its own: the text it is called with,
    clock,           \*   the values datetime.now() gives during the call,
    returned         \*   and what the call returned

\* the state of a call of parse_job_time on its own
normalizer == <<posted_text, clock, returned>>
vars == <<pc, idx, browser, tabs, jobs, all_jobs, feed, TIME_THRESHOLD, error, call, seen,
          normalizer>>

(***************************************************************************)
(* What an adapter reads.  A wrapper is one listing container: the href of *)
(* its link (has = FALSE: no href attribute), its title, company and       *)
(* posted-time texts, its location text (has = FALSE: the element is not   *)
(* there or not visible) and broken = TRUE when reading one of its         *)
(* required elements raises.  The href is that of the link the adapter's   *)
(* link selector finds in the container.                                   *)
(***************************************************************************)
Str(s) == [has |-> TRUE, v |-> s]
Absent == [has |-> FALSE]
\* `if x` for an Optional[str]: neither None nor ''
Truthy(x) == x.has /\ x.v # <<>>

Job(title, company, location, posted_ago, posted_datetime, url, source) ==
    [title |-> title, company |-> company, location |-> location,
     posted_ago |-> posted_ago, posted_datetime |-> posted_datetime,
     url |-> url, source |-> source]

\* SkipPosting without the comparison with TIME_THRESHOLD (C1 fails under it)
SkipPosting_unparsed_only(posted_datetime) == ~posted_datetime.has
\* `if not posted_datetime or posted_datetime <= TIME_THRESHOLD: continue`
SkipPosting(posted_datetime) ==
    ~posted_datetime.has \/ DtLessEq(posted_datetime.dt, TIME_THRESHOLD)

\* f"{base}{job_url}" if job_url and job_url.startswith(prefix) else job_url
Prefixed(job_url, base, prefix) ==
    IF Truthy(job_url) /\ startswith(job_url.v, prefix) THEN Str(base \o job_url.v) ELSE job_url

\* the concatenation of a sequence of lists
RECURSIVE Flatten(_)
Flatten(ss) == IF ss = <<>> THEN <<>> ELSE Head(ss) \o Flatten(Tail(ss))

\* The checks and the jobs.append the page adapters share: a wrapper is skipped
\* when reading it raises (skipped), when its time is unparseable or not after
\* the cutoff, and when its url is None or empty.
Listing(w, skipped, posted_datetime, job_url, location, source) ==
    IF skipped \/ SkipPosting(posted_datetime) \/ ~Truthy(job_url) THEN <<>>
    ELSE <<Job(strip(w.title), strip(w.company), location, strip(w.posted),
               strftime(posted_datetime.dt), job_url.v, source)>>
\* `location_locator.inner_text().strip() if ... else default`
LocationOr(w, default) == IF w.location.has THEN strip(w.location.v) ELSE default

\* ---- scrape_dribbble_jobs -------------------------------------------------
\* the location element is read without a guard: a wrapper without it raises
dribbble_item(w, t) ==
    Listing(w, w.broken \/ ~w.location.has, parse_job_time(strip(w.posted), t),
            Prefixed(w.href, BASE_DRIBBBLE, <<"/">>), LocationOr(w, <<>>), SRC_DRIBBBLE)
\* scrape_dribbble_jobs without the try around one wrapper: the first wrapper
\* that raises ends the loop, and the outer except returns the records so far
\* (C18 fails under it)
scrape_dribbble_jobs_no_item_try(page, t) ==
    IF ~page.goto_ok \/ ~page.wait_ok THEN <<>>
    ELSE Flatten([i \in 1..Len(page.items) |->
                     IF \E j \in 1..i : page.items[j].broken THEN <<>>
                     ELSE dribbble_item(page.items[i], t)])
scrape_dribbble_jobs(page, t) ==
    IF ~page.goto_ok \/ ~page.wait_ok THEN <<>>
    ELSE Flatten([i \in 1..Len(page.items) |-> dribbble_item(page.items[i], t)])

\* ---- scrape_productjobsanywhere_jobs --------------------------------------
\* a wrapper whose Worldwide element is not visible is skipped; the href is
\* emitted as it is read
productjobsanywhere_item(w, t) ==
    Listing(w, w.broken \/ ~w.location.has, parse_job_time(strip(w.posted), t),
            w.href, LocationOr(w, <<>>), SRC_PRODUCTJOBSANYWHERE)
\* a timeout of the wait is only printed: the wrappers are enumerated all the same
scrape_productjobsanywhere_jobs(page, t) ==
    IF ~page.goto_ok THEN <<>>
    ELSE Flatten([i \in 1..Len(page.items) |-> productjobsanywhere_item(page.items[i], t)])

\* ---- scrape_builtin_jobs --------------------------------------------------
builtin_item(w, t) ==
    Listing(w, w.broken \/ ~w.location.has, parse_job_time(strip(w.posted), t),
            Prefixed(w.href, BASE_BUILTIN, <<"/">>), LocationOr(w, <<>>), SRC_BUILTIN)
scrape_builtin_jobs(page, t) ==
    IF ~page.goto_ok \/ ~page.wait_ok THEN <<>>
    ELSE Flatten([i \in 1..Len(page.items) |-> builtin_item(page.items[i], t)])

\* ---- scrape_weworkremotely_jobs -------------------------------------------
weworkremotely_item(w, t) ==
    Listing(w, w.broken, parse_job_time(strip(w.posted), t),
            Prefixed(w.href, BASE_WEWORKREMOTELY, <<"/">>), REMOTE_GLOBAL,
            SRC_WEWORKREMOTELY)
scrape_weworkremotely_jobs(page, t) ==
    IF ~page.goto_ok \/ ~page.wait_ok THEN <<>>
    ELSE Flatten([i \in 1..Len(page.items) |-> weworkremotely_item(page.items[i], t)])

\* ---- scrape_justremote_jobs -----------------------------------------------
justremote_item(w, t) ==
    Listing(w, w.broken, parse_job_time(strip(w.posted), t),
            Prefixed(w.href, BASE_JUSTREMOTE, <<"/">>), LocationOr(w, REMOTE_GLOBAL),
            SRC_JUSTREMOTE)
scrape_justremote_jobs(page, t) ==
    IF ~page.goto_ok \/ ~page.wait_ok THEN <<>>
    ELSE Flatten([i \in 1..Len(page.items) |-> justremote_item(page.items[i], t)])

\* ---- scrape_remote4africa_jobs --------------------------------------------
remote4africa_item(w, t) ==
    Listing(w, w.broken, parse_job_time(strip(w.posted), t),
            Prefixed(w.href, BASE_REMOTE4AFRICA, <<"/">>), REMOTE_AFRICA,
            SRC_REMOTE4AFRICA)
scrape_remote4africa_jobs(page, t) ==
    IF ~page.goto_ok \/ ~page.wait_ok THEN <<>>
    ELSE Flatten([i \in 1..Len(page.items) |-> remote4africa_item(page.items[i], t)])

\* ---- scrape_realworkfromanywhere_jobs -------------------------------------
realworkfromanywhere_item(w, t) ==
    Listing(w, w.broken, parse_job_time(strip(w.posted), t),
            Prefixed(w.href, BASE_REALWORKFROMANYWHERE, SLASH_JOBS),
            LocationOr(w, REMOTE_WORLDWIDE), SRC_REALWORKFROMANYWHERE)
scrape_realworkfromanywhere_jobs(page, t) ==
    IF ~page.goto_ok \/ ~page.wait_ok THEN <<>>
    ELSE Flatten([i \in 1..Len(page.items) |-> realworkfromanywhere_item(page.items[i], t)])

\* ---- scrape_remote_rocketship_jobs ----------------------------------------
\* s.replace(p, '') with every occurrence removed
RECURSIVE remove_all(_, _)
remove_all(s, p) ==
    IF find(s, p) = 0 THEN s
    ELSE SubSeq(s, 1, find(s, p) - 1) \o remove_all(SubSeq(s, find(s, p) + Len(p), Len(s)), p)
\* re.sub(r'\s{2,}', ' ', s): each run of two or more whitespace becomes one space
RECURSIVE collapse_spaces(_)
collapse_spaces(s) ==
    IF s = <<>> THEN <<>>
    ELSE IF IsSpace(s[1]) /\ SkipSpaces(s, 1) > 2
         THEN <<" ">> \o collapse_spaces(SubSeq(s, SkipSpaces(s, 1), Len(s)))
         ELSE <<s[1]>> \o collapse_spaces(Tail(s))
\* `if not location: location = "Remote, Global"`
OrGlobal(location) == IF location = <<>> THEN REMOTE_GLOBAL ELSE location
\* The location clean-up of the adapter.  The model's alphabet holds no flag
\* emoji and no dash, so the two substitutions on them change nothing here.
rr_location(w) ==
    OrGlobal(strip_chars(collapse_spaces(strip(remove_all(remove_all(
        LocationOr(w, REMOTE_GLOBAL), REMOTE), <<"+">>))), {" ", ","}))
\* full_url = selectors['url_base'] + relative_url if relative_url else None
full_url(selectors, relative_url) ==
    IF Truthy(relative_url) THEN Str(selectors.url_base \o relative_url.v) ELSE Absent
rr_item(w, selectors, t) ==
    Listing(w, w.broken, parse_job_time(strip(w.posted), t), full_url(selectors, w.href),
            rr_location(w), selectors.source)
\* the records of the containers job_items under one selector set
rr_collect(job_items, selectors, t) ==
    Flatten([i \in 1..Len(job_items) |-> rr_item(job_items[i], selectors, t)])
\* rr_break for a loop that always goes on to the next selector set (C4 fails under it)
rr_break_never(found) == FALSE
\* `if jobs: ... break`: the failover loop ends once records were found
rr_break(found) == found # <<>>

\* ---- scrape_up2staff_api_jobs ---------------------------------------------
\* find('a', href=True) accepts an empty href, and nothing checks it afterwards
up2staff_listing(w, job_url, posted_datetime) ==
    IF SkipPosting(posted_datetime) THEN <<>>
    ELSE <<Job(strip(w.title), strip(w.company), LocationOr(w, REMOTE_GLOBAL),
               strip(w.posted), strftime(posted_datetime.dt), job_url, SRC_UP2STAFF)>>
up2staff_item(w, BASE_URL, t) ==
    IF w.broken \/ ~w.href.has THEN <<>>
    ELSE IF \E path \in SKIP_PATHS : contains(w.href.v, path) THEN <<>>
    ELSE IF strip_chars(w.href.v, {"/"}) = BASE_URL THEN <<>>
    ELSE up2staff_listing(w, w.href.v, parse_job_time(strip(w.posted), t))
\* response: ok = FALSE when the POST fails or its status is an error; body tells
\* whether it is JSON with an 'html' field, other JSON, or raw HTML
scrape_up2staff_api_jobs(url, response, t) ==
    IF ~response.ok \/ response.body = "json_other" THEN <<>>
    ELSE Flatten([i \in 1..Len(response.items) |->
                      up2staff_item(response.items[i], strip_chars(url, {"/"}), t)])

(***************************************************************************)
(* The aggregation at the end of scrape_all_jobs.                          *)
(***************************************************************************)
\* re.sub(r'\s+', ' ', s): each run of whitespace becomes one space
RECURSIVE collapse_whitespace(_)
collapse_whitespace(s) ==
    IF s = <<>> THEN <<>>
    ELSE IF IsSpace(s[1])
         THEN <<" ">> \o collapse_whitespace(SubSeq(s, SkipSpaces(s, 1), Len(s)))
         ELSE <<s[1]>> \o collapse_whitespace(Tail(s))
normalized_title(job) == collapse_whitespace(lower(strip(job.title)))
normalized_posted_ago(job) == lower(strip(job.posted_ago))
\* dedupe_key without the exception for BuiltIn (C17 fails under it)
dedupe_key_url_only(job) == job.url
dedupe_key(job) ==
    IF job.source = SRC_BUILTIN
    THEN job.source \o <<":">> \o normalized_title(job) \o <<":">> \o normalized_posted_ago(job)
    ELSE job.url
\* unique_jobs keeping every record of the pool (C2 fails under it)
unique_jobs_keep_all(pool) == pool
\* unique_jobs with `unique_jobs_map[dedupe_key] = job` done for every job: each
\* key keeps its place of first occurrence and the last job under it (C21 fails
\* under it)
unique_jobs_last_wins(pool) ==
    LET first == {i \in 1..Len(pool) :
                     \A j \in 1..(i - 1) : dedupe_key(pool[j]) # dedupe_key(pool[i])}
        last(i) == SetMax({j \in i..Len(pool) : dedupe_key(pool[j]) = dedupe_key(pool[i])})
        RECURSIVE Pick(_)
        Pick(i) == IF i > Len(pool) THEN <<>>
                   ELSE (IF i \in first THEN <<pool[last(i)]>> ELSE <<>>) \o Pick(i + 1)
    IN  Pick(1)
\* list(unique_jobs_map.values()): the first job of each key, in order of first occurrence
unique_jobs(pool) ==
    LET first == {i \in 1..Len(pool) :
                     \A j \in 1..(i - 1) : dedupe_key(pool[j]) # dedupe_key(pool[i])}
        RECURSIVE Pick(_)
        Pick(i) == IF i > Len(pool) THEN <<>>
                   ELSE (IF i \in first THEN <<pool[i]>> ELSE <<>>) \o Pick(i + 1)
    IN  Pick(1)
\* the sort key: datetime.strptime(x['posted_datetime'], '%Y-%m-%d %H:%M:%S')
sort_key(job) == strptime(job.posted_datetime)
\* Before for an ascending sort (C3 fails under it)
Before_oldest_first(x, y) == DtLess(sort_key(x), sort_key(y))
\* x goes before y in sorted(..., reverse=True)
Before(x, y) == DtGreater(sort_key(x), sort_key(y))
\* sorted(list, key=sort_key, reverse=True): stable, newest first
RECURSIVE sorted_jobs(_)
sorted_jobs(list) ==
    IF list = <<>> THEN <<>>
    ELSE LET x == list[Len(list)]
             rest == sorted_jobs(SubSeq(list, 1, Len(list) - 1))
             ahead == {i \in 1..Len(rest) : ~Before(x, rest[i])}
             n == IF ahead = {} THEN 0 ELSE SetMax(ahead)
         IN  SubSeq(rest, 1, n) \o <<x>> \o SubSeq(rest, n + 1, Len(rest))

(***************************************************************************)
(* Inputs: what the boards serve.                                          *)
(***************************************************************************)
\* "/jobs/1"
HREF_1 == <<"/", "j", "o", "b", "s", "/", "1">>
\* "/jobs/2"
HREF_2 == <<"/", "j", "o", "b", "s", "/", "2">>
\* "/x/jobs/1"
HREF_DEEP == <<"/", "x", "/", "j", "o", "b", "s", "/", "1">>
\* "https://x.co/j"
HREF_ABS == <<"h", "t", "t", "p", "s", ":", "/", "/", "x", ".", "c", "o", "/", "j">>
\* "/cart"
HREF_CART == <<"/", "c", "a", "r", "t">>
\* "UX Lead"
TITLE_A == <<"U", "X", " ", "L", "e", "a", "d">>
\* " ux  lead"
TITLE_B == <<" ", "u", "x", " ", " ", "l", "e", "a", "d">>
\* "Dev"
TITLE_C == <<"D", "e", "v">>
\* "Acme"
COMPANY == <<"A", "c", "m", "e">>
\* "Remote, Lagos +"
LOCATION == <<"R", "e", "m", "o", "t", "e", ",", " ", "L", "a", "g", "o", "s", " ", "+">>
\* "1 hour ago"
T_1_HOUR == <<"1", " ", "h", "o", "u", "r", " ", "a", "g", "o">>
\* "1 Hour Ago "
T_1_HOUR_CAPS == <<"1", " ", "H", "o", "u", "r", " ", "A", "g", "o", " ">>
\* "Reposted 2h ago"
T_2H == <<"R", "e", "p", "o", "s", "t", "e", "d", " ", "2", "h", " ", "a", "g", "o">>
\* "2881 minutes ago": a minute more than the 48 hours of the window
T_2881_MIN == <<"2", "8", "8", "1", " ", "m", "i", "n", "u", "t", "e", "s", " ", "a", "g", "o">>
\* "3 days ago"
T_3_DAYS == <<"3", " ", "d", "a", "y", "s", " ", "a", "g", "o">>

Wrapper(href, title, posted, location, broken) ==
    [href |-> href, title |-> title, company |-> COMPANY, posted |-> posted,
     location |-> location, broken |-> broken]
\* a fresh posting with a relative link
W_FRESH == Wrapper(Str(HREF_1), TITLE_A, T_1_HOUR, Str(LOCATION), FALSE)
\* the same title and posted text up to case and spacing, under another link
W_SAME_TITLE == Wrapper(Str(HREF_2), TITLE_B, T_1_HOUR_CAPS, Str(LOCATION), FALSE)
\* the same link as W_FRESH, another title, posted an hour earlier
W_SAME_LINK == Wrapper(Str(HREF_1), TITLE_C, T_2H, Str(LOCATION), FALSE)
\* an absolute link, posted a minute before the window opened
W_EDGE == Wrapper(Str(HREF_ABS), TITLE_C, T_2881_MIN, Str(LOCATION), FALSE)
\* posted before the window
W_STALE == Wrapper(Str(HREF_2), TITLE_A, T_3_DAYS, Str(LOCATION), FALSE)
\* a posted text no pattern matches
W_NO_TIME == Wrapper(Str(HREF_2), TITLE_A, N_A, Str(LOCATION), FALSE)
\* a link without href, with an empty href, outside /jobs/, to the cart
W_NO_HREF == Wrapper(Absent, TITLE_A, T_1_HOUR, Str(LOCATION), FALSE)
W_EMPTY_HREF == Wrapper(Str(<<>>), TITLE_A, T_1_HOUR, Str(LOCATION), FALSE)
W_DEEP == Wrapper(Str(HREF_DEEP), TITLE_A, T_1_HOUR, Str(LOCATION), FALSE)
W_CART == Wrapper(Str(HREF_CART), TITLE_A, T_1_HOUR, Str(LOCATION), FALSE)
\* no location element (for Product Jobs Anywhere: not tagged Worldwide)
W_NO_LOCATION == Wrapper(Str(HREF_2), TITLE_A, T_1_HOUR, Absent, FALSE)
\* reading one of its elements raises
W_BROKEN == Wrapper(Str(HREF_2), TITLE_A, T_1_HOUR, Str(LOCATION), TRUE)

\* the listing containers each board may serve
WrappersFor(type) ==
    CASE type = "dribbble" -> {W_FRESH, W_EDGE, W_STALE, W_NO_TIME, W_BROKEN}
      [] type = "remoterocketship" -> {W_FRESH, W_EDGE, W_STALE}
      [] type = "builtin" -> {W_FRESH, W_SAME_TITLE, W_SAME_LINK}
      [] type = "up2staff_api" -> {W_FRESH, W_EMPTY_HREF, W_NO_HREF, W_CART, W_BROKEN}
      [] type = "weworkremotely" -> {W_FRESH, W_NO_TIME, W_NO_HREF}
      [] type = "justremote" -> {W_FRESH, W_NO_LOCATION, W_STALE}
      [] type = "remote4africa" -> {W_FRESH, W_EMPTY_HREF, W_BROKEN}
      [] type = "realworkfromanywhere" -> {W_FRESH, W_DEEP, W_NO_TIME}
      [] type = "productjobsanywhere" -> {W_FRESH, W_NO_LOCATION, W_EDGE}
\* the lists of at most MaxItems containers
ItemLists(type) == UNION {[1..n -> WrappersFor(type)] : n \in 0..MaxItems}
\* a page: whether goto succeeds, whether the wait for the container selector
\* succeeds, and the containers locator(...).all() yields
Pages(type) ==
    {[goto_ok |-> FALSE, wait_ok |-> FALSE, items |-> <<>>]}
    \cup {[goto_ok |-> TRUE, wait_ok |-> w, items |-> it] : w \in BOOLEAN, it \in ItemLists(type)}
\* what one selector set of RemoteRocketship finds
SelectorSets(type) ==
    {[wait_ok |-> FALSE, items |-> <<>>]}
    \cup {[wait_ok |-> TRUE, items |-> it] : it \in ItemLists(type)}
\* the response of the Up2Staff endpoint; JSON without an 'html' field carries no
\* markup, and so no containers
Responses(type) ==
    {[ok |-> FALSE, body |-> "raw_html", items |-> <<>>],
     [ok |-> TRUE, body |-> "json_other", items |-> <<>>]}
    \cup {[ok |-> TRUE, body |-> b, items |-> it] :
             b \in {"json_html", "raw_html"}, it \in ItemLists(type)}

\* datetime.now() when the module is loaded: 2025-01-10 12:00:00 and a fraction
LoadTimes == {DateTime(2025, 1, 10, 12, 0, 0, u) : u \in 0..(MicroRes - 1)}
\* The clock in the explored runs: the adapter of entry k reads it EntrySeconds * k
\* seconds after the module was loaded (the page loads and the pauses of
\* time.sleep fill the time between), at any fraction of that second; the second
\* selector set of RemoteRocketship is read one second after the first.  All
\* containers of one page are read within one tick.
Readings(k, pass) ==
    {[sec |-> TIME_THRESHOLD.sec + ThresholdHours * 3600 + EntrySeconds * k + (pass - 1),
      micro |-> u] : u \in 0..(MicroRes - 1)}

(***************************************************************************)
(* scrape_all_jobs.                                                        *)
(***************************************************************************)
\* call records what the adapter call of the current entry did: the adapter, whether
\* its wait for the listing containers timed out (for RemoteRocketship: the wait of
\* every selector set tried), the selector sets tried, and the containers it read
\* (for RemoteRocketship: those of the last set tried)
NoCall == [adapter |-> "none", timed_out |-> FALSE, attempts |-> <<>>, items |-> <<>>]
\* parse_job_time has not returned
NotCalled == [done |-> FALSE]
\* jobs.json is not written
NoFeed == [written |-> FALSE]
\* `for config in JOB_URL_CONFIGS`
config == JOB_URL_CONFIGS[idx]
scraper_type == config.type

\* The module is loaded: TIME_THRESHOLD is computed once, from the clock.
Init ==
    /\ \E loaded \in LoadTimes :
          TIME_THRESHOLD = DtMinus(loaded, timedelta("hours", ThresholdHours))
    /\ pc = "start"
    /\ idx = 0
    /\ browser = "none"
    /\ tabs = {}
    /\ jobs = <<>>
    /\ all_jobs = <<>>
    /\ feed = NoFeed
    /\ error = "none"
    /\ call = NoCall
    /\ seen = 0
    /\ posted_text = <<>>
    /\ clock = <<>>
    /\ returned = NotCalled

\* Abort for an except clause without its return: the run goes on to write
\* jobs.json from the pool it has (C13 fails under it)
Abort_without_return(what) ==
    /\ error' = what
    /\ pc' = "save"
    /\ browser' = IF browser = "open" THEN "closed" ELSE browser
    /\ tabs' = {}
\* The except clause of scrape_all_jobs: leaving `with sync_playwright()` stops
\* Playwright, which ends the browser and its pages; the function returns and
\* jobs.json is not written.
Abort(what) ==
    /\ error' = what
    /\ pc' = "aborted"
    /\ browser' = IF browser = "open" THEN "closed" ELSE browser
    /\ tabs' = {}

\* sync_playwright() and p.chromium.launch(headless=True)
launch ==
    /\ pc = "start"
    /\ browser' = "open"
    /\ idx' = 1
    /\ pc' = "entry"
    /\ UNCHANGED <<normalizer, tabs, jobs, all_jobs, feed, TIME_THRESHOLD, error, call, seen>>
launch_raises ==
    /\ pc = "start"
    /\ Abort("launch")
    /\ UNCHANGED <<normalizer, idx, jobs, all_jobs, feed, TIME_THRESHOLD, call, seen>>

\* browser.new_page(...) for a page-based entry
new_page ==
    /\ pc = "entry" /\ idx <= Len(JOB_URL_CONFIGS)
    /\ scraper_type \in browser_required_types
    /\ tabs' = tabs \cup {idx}
    /\ pc' = "call"
    /\ UNCHANGED <<normalizer, idx, browser, jobs, all_jobs, feed, TIME_THRESHOLD, error, call, seen>>
new_page_raises ==
    /\ pc = "entry" /\ idx <= Len(JOB_URL_CONFIGS)
    /\ scraper_type \in browser_required_types
    /\ Abort("new_page")
    /\ UNCHANGED <<normalizer, idx, jobs, all_jobs, feed, TIME_THRESHOLD, call, seen>>
\* an API-based entry: page stays None
no_page ==
    /\ pc = "entry" /\ idx <= Len(JOB_URL_CONFIGS)
    /\ scraper_type \notin browser_required_types
    /\ pc' = "call"
    /\ UNCHANGED <<normalizer, idx, browser, tabs, jobs, all_jobs, feed, TIME_THRESHOLD, error, call, seen>>

\* the adapter of the entry returns: its list is held in jobs
Returns(type, result, timed_out, items) ==
    /\ seen + Len(items) <= MaxSeen
    /\ seen' = seen + Len(items)
    /\ jobs' = result
    /\ call' = [adapter |-> type, timed_out |-> timed_out, attempts |-> <<>>, items |-> items]
    /\ pc' = "extend"
    /\ UNCHANGED <<normalizer, idx, browser, tabs, all_jobs, feed, TIME_THRESHOLD, error>>
\* the wait timed out (the page was reached and the selector did not appear)
TimedOut(page) == page.goto_ok /\ ~page.wait_ok

call_dribbble ==
    /\ pc = "call" /\ scraper_type = "dribbble"
    /\ \E page \in Pages("dribbble"), t \in Readings(idx, 1) :
          Returns("dribbble", scrape_dribbble_jobs(page, t), TimedOut(page), page.items)
call_builtin ==
    /\ pc = "call" /\ scraper_type = "builtin"
    /\ \E page \in Pages("builtin"), t \in Readings(idx, 1) :
          Returns("builtin", scrape_builtin_jobs(page, t), TimedOut(page), page.items)
call_weworkremotely ==
    /\ pc = "call" /\ scraper_type = "weworkremotely"
    /\ \E page \in Pages("weworkremotely"), t \in Readings(idx, 1) :
          Returns("weworkremotely", scrape_weworkremotely_jobs(page, t), TimedOut(page),
                  page.items)
call_justremote ==
    /\ pc = "call" /\ scraper_type = "justremote"
    /\ \E page \in Pages("justremote"), t \in Readings(idx, 1) :
          Returns("justremote", scrape_justremote_jobs(page, t), TimedOut(page), page.items)
call_remote4africa ==
    /\ pc = "call" /\ scraper_type = "remote4africa"
    /\ \E page \in Pages("remote4africa"), t \in Readings(idx, 1) :
          Returns("remote4africa", scrape_remote4africa_jobs(page, t), TimedOut(page),
                  page.items)
call_realworkfromanywhere ==
    /\ pc = "call" /\ scraper_type = "realworkfromanywhere"
    /\ \E page \in Pages("realworkfromanywhere"), t \in Readings(idx, 1) :
          Returns("realworkfromanywhere", scrape_realworkfromanywhere_jobs(page, t),
                  TimedOut(page), page.items)
call_productjobsanywhere ==
    /\ pc = "call" /\ scraper_type = "productjobsanywhere"
    /\ \E page \in Pages("productjobsanywhere"), t \in Readings(idx, 1) :
          Returns("productjobsanywhere", scrape_productjobsanywhere_jobs(page, t),
                  TimedOut(page), page.items)
call_up2staff_api ==
    /\ pc = "call" /\ scraper_type = "up2staff_api"
    /\ \E response \in Responses("up2staff_api"), t \in Readings(idx, 1) :
          Returns("up2staff_api", scrape_up2staff_api_jobs(config.url, response, t), FALSE,
                  response.items)

\* scrape_remote_rocketship_jobs, one selector set at a time: call.attempts tells
\* for each set tried its version, whether its wait succeeded, the containers it
\* yielded and the records they gave.  page.goto raising ends the call at once.
rr_goto_raises ==
    /\ pc = "call" /\ scraper_type = "remoterocketship"
    /\ call.attempts = <<>>
    /\ Returns("remoterocketship", <<>>, FALSE, <<>>)
\* one pass of the failover loop: selector set k, the containers it yields and
\* the records they give
rr_pass(k, s, job_items, found) ==
    /\ seen + Len(job_items) <= MaxSeen
    /\ seen' = seen + Len(job_items)
    /\ jobs' = jobs \o found
    /\ call' = [adapter |-> "remoterocketship",
                timed_out |-> (k = 1 \/ call.timed_out) /\ ~s.wait_ok,
                attempts |-> Append(call.attempts,
                                    [version |-> RR_ALL_SELECTORS[k].version,
                                     wait_ok |-> s.wait_ok, items |-> Len(job_items),
                                     found |-> Len(found)]),
                items |-> job_items]
    /\ pc' = IF rr_break(jobs \o found) \/ k = Len(RR_ALL_SELECTORS) THEN "extend" ELSE "call"
    /\ UNCHANGED <<normalizer, idx, browser, tabs, all_jobs, feed, TIME_THRESHOLD, error>>
rr_try_selectors ==
    /\ pc = "call" /\ scraper_type = "remoterocketship"
    /\ Len(call.attempts) < Len(RR_ALL_SELECTORS)
    /\ \E s \in SelectorSets("remoterocketship"), t \in Readings(idx, Len(call.attempts) + 1) :
          rr_pass(Len(call.attempts) + 1, s, s.items,
                  rr_collect(s.items, RR_ALL_SELECTORS[Len(call.attempts) + 1], t))

\* extend_and_close without page.close() (C6 fails under it)
extend_and_keep_tab ==
    /\ pc = "extend"
    /\ all_jobs' = all_jobs \o jobs
    /\ idx' = idx + 1
    /\ jobs' = <<>>
    /\ call' = NoCall
    /\ pc' = "entry"
    /\ UNCHANGED <<normalizer, browser, tabs, feed, TIME_THRESHOLD, error, seen>>
\* extend_and_close putting the records of the entry before the pool (C16 fails
\* under it)
extend_front_and_close ==
    /\ pc = "extend"
    /\ all_jobs' = jobs \o all_jobs
    /\ tabs' = tabs \ {idx}
    /\ idx' = idx + 1
    /\ jobs' = <<>>
    /\ call' = NoCall
    /\ pc' = "entry"
    /\ UNCHANGED <<normalizer, browser, feed, TIME_THRESHOLD, error, seen>>
\* all_jobs.extend(jobs); page.close() if there is a page; time.sleep(1)
extend_and_close ==
    /\ pc = "extend"
    /\ all_jobs' = all_jobs \o jobs
    /\ tabs' = tabs \ {idx}
    /\ idx' = idx + 1
    /\ jobs' = <<>>
    /\ call' = NoCall
    /\ pc' = "entry"
    /\ UNCHANGED <<normalizer, browser, feed, TIME_THRESHOLD, error, seen>>
\* page.close() raises
close_raises ==
    /\ pc = "extend"
    /\ idx \in tabs
    /\ all_jobs' = all_jobs \o jobs
    /\ Abort("page_close")
    /\ UNCHANGED <<normalizer, idx, jobs, feed, TIME_THRESHOLD, call, seen>>

\* after the last entry: browser.close()
close_browser ==
    /\ pc = "entry" /\ idx > Len(JOB_URL_CONFIGS)
    /\ browser' = "closed"
    /\ pc' = "save"
    /\ UNCHANGED <<normalizer, idx, tabs, jobs, all_jobs, feed, TIME_THRESHOLD, error, call, seen>>
close_browser_raises ==
    /\ pc = "entry" /\ idx > Len(JOB_URL_CONFIGS)
    /\ Abort("browser_close")
    /\ UNCHANGED <<normalizer, idx, jobs, all_jobs, feed, TIME_THRESHOLD, call, seen>>

\* save writing jobs.json only when the pool holds records (C14 fails under it)
save_unless_empty_pool ==
    /\ pc = "save"
    /\ feed' = IF all_jobs # <<>>
               THEN [written |-> TRUE, jobs |-> sorted_jobs(unique_jobs(all_jobs))]
               ELSE feed
    /\ pc' = "done"
    /\ UNCHANGED <<normalizer, idx, browser, tabs, jobs, all_jobs, TIME_THRESHOLD, error, call,
                   seen>>
\* PROCESS AND SAVE TO JSON: deduplicate, sort, write jobs.json ([] for an empty pool)
save ==
    /\ pc = "save"
    /\ feed' = [written |-> TRUE,
                jobs |-> IF all_jobs # <<>> THEN sorted_jobs(unique_jobs(all_jobs)) ELSE <<>>]
    /\ pc' = "done"
    /\ UNCHANGED <<normalizer, idx, browser, tabs, jobs, all_jobs, TIME_THRESHOLD, error, call, seen>>

Next ==
    \/ launch \/ launch_raises
    \/ new_page \/ new_page_raises \/ no_page
    \/ call_dribbble \/ call_builtin \/ call_weworkremotely \/ call_justremote
    \/ call_remote4africa \/ call_realworkfromanywhere \/ call_productjobsanywhere
    \/ call_up2staff_api
    \/ rr_goto_raises \/ rr_try_selectors
    \/ extend_and_close \/ close_raises
    \/ close_browser \/ close_browser_raises
    \/ save

Spec == Init /\ [][Next]_vars

(***************************************************************************)
(* parse_job_time on its own: one call, with any of the texts below, at    *)
(* any of the clocks below.                                                *)
(***************************************************************************)
\* the digits of <N>
Counts == {<<"0">>, <<"1">>, <<"3">>, <<"0", "3">>, <<"4", "8">>}
AGO == <<" ", "a", "g", "o">>
\* "<N> minute(s) ago", "<N> hour(s) ago", "<N> day(s) ago", "<N> week(s) ago"
WordText(n, u, plural) ==
    n \o <<" ">> \o WordUnits[u] \o (IF plural THEN <<"s">> ELSE <<>>) \o AGO
\* "<N>m ago", "<N>h ago", "<N>d ago", "<N>w ago"
ShortText(n, u) == n \o ShortUnits[u] \o AGO
\* the days of the month the texts name
Days == {1, 8, 29, 31}
\* "Jan 01" ... "Dec 31": the abbreviated month name and the day in two digits
MonthDayText(m, d) == capitalize(MonthAbbr[m]) \o <<" ">> \o Pad(d, 2)
\* texts more than one pattern matches, or none
T_SHORT_THEN_WORD == <<"3", "d", " ", "a", "g", "o", ",", " ", "e", "d", "i", "t", "e", "d", " ",
        "2", " ", "h", "o", "u", "r", "s", " ", "a", "g", "o">>
T_SHORT_THEN_DATE == <<"1", "d", " ", "a", "g", "o", " ", "(", "1", "0", "/", "0", "3", "/", "2",
        "0", "2", "5", ")">>
T_WORD_THEN_MONTH == <<"2", " ", "h", "o", "u", "r", "s", " ", "a", "g", "o", ",", " ", "A", "u",
        "g", " ", "0", "8">>
T_DATE_THEN_MONTH == <<"1", "0", "/", "0", "3", "/", "2", "0", "2", "5", " ", "A", "u", "g", " ",
        "0", "8">>
T_BAD_DATE_THEN_MONTH == <<"1", "3", "/", "1", "3", "/", "2", "0", "2", "5", " ", "A", "u", "g",
        " ", "0", "8">>
T_MONTH_THEN_SHORT == <<"A", "u", "g", " ", "0", "8", " ", "5", "h", " ", "a", "g", "o">>
T_ISO_DATE == <<"2", "0", "2", "5", "-", "1", "0", "-", "0", "3">>
T_YESTERDAY == <<"Y", "e", "s", "t", "e", "r", "d", "a", "y">>
MixedTexts == {T_SHORT_THEN_WORD, T_SHORT_THEN_DATE, T_WORD_THEN_MONTH, T_DATE_THEN_MONTH,
               T_BAD_DATE_THEN_MONTH, T_MONTH_THEN_SHORT, T_ISO_DATE, T_YESTERDAY, N_A}
TimeTexts ==
    {WordText(n, u, p) : n \in Counts, u \in 1..4, p \in BOOLEAN}
    \cup {ShortText(n, u) : n \in Counts, u \in 1..4}
    \cup {MonthDayText(m, d) : m \in 1..12, d \in Days}
    \cup MixedTexts

\* The seconds at which calls are explored: noon of 2025-01-10, noon of the day
\* after 2024-02-29, the last second of 2024 and the first of 2025, and the
\* midnight that begins 2025-08-08.
CallSeconds ==
    {DateTime(2025, 1, 10, 12, 0, 0, 0).sec, DateTime(2024, 3, 1, 12, 0, 0, 0).sec,
     DateTime(2024, 12, 31, 23, 59, 59, 0).sec, DateTime(2025, 1, 1, 0, 0, 0, 0).sec,
     DateTime(2025, 8, 8, 0, 0, 0, 0).sec}
Ticks == {[sec |-> s, micro |-> u] : s \in CallSeconds, u \in 0..(MicroRes - 1)}
\* what datetime.now() may give at three successive readings of one call: the
\* clock does not go back, and the call is over within a second
Clocks ==
    {c \in Ticks \X Ticks \X Ticks :
        /\ DtLessEq(c[1], c[2]) /\ DtLessEq(c[2], c[3])
        /\ c[3].sec - c[1].sec <= 1}

\* parse_job_time is about to be called with posted_text
NormalizerInit ==
    /\ TIME_THRESHOLD = DtMinus(DateTime(2025, 1, 10, 12, 0, 0, 0),
                                timedelta("hours", ThresholdHours))
    /\ pc = "parse_job_time"
    /\ idx = 0
    /\ browser = "none"
    /\ tabs = {}
    /\ jobs = <<>>
    /\ all_jobs = <<>>
    /\ feed = NoFeed
    /\ error = "none"
    /\ call = NoCall
    /\ seen = 0
    /\ posted_text \in TimeTexts
    /\ clock \in Clocks
    /\ returned = NotCalled

\* parse_job_time(posted_text) runs and returns
call_parse_job_time ==
    /\ pc = "parse_job_time"
    /\ ~returned.done
    /\ returned' = [done |-> TRUE, value |-> Resolve(TimeShape(posted_text), clock)]
    /\ UNCHANGED <<pc, idx, browser, tabs, jobs, all_jobs, feed, TIME_THRESHOLD, error, call,
                   seen, posted_text, clock>>

NormalizerNext == call_parse_job_time

SpecNormalizer == NormalizerInit /\ [][NormalizerNext]_vars

(***************************************************************************)
(* The aggregation on its own: scrape_all_jobs has left its `with` block   *)
(* with any of the pools below, and deduplicates, sorts and writes.        *)
(***************************************************************************)
\* "https://x.co/k"
URL_OTHER == <<"h", "t", "t", "p", "s", ":", "/", "/", "x", ".", "c", "o", "/", "k">>
\* the clock readings of two entries, an hour and two hours back
POSTED_1H == strftime(DateTime(2025, 1, 10, 11, 0, 0, 0))
POSTED_1H_LATER == strftime(DateTime(2025, 1, 10, 11, 1, 0, 0))
POSTED_2H == strftime(DateTime(2025, 1, 10, 10, 0, 0, 0))
\* Records as the adapters append them (texts stripped, posted_datetime made by
\* strftime, after the cutoff): two Dribbble records with one url and different
\* titles and times; an Up2Staff record with that url; a BuiltIn record with
\* that url; a BuiltIn record equal to it in title and posted text up to case and
\* spacing, with another url; a BuiltIn record with the first one's url and
\* another title; a Dribbble record with another url.  Three of them share
\* their posted_datetime.
PoolRecords ==
    {Job(TITLE_A, COMPANY, LOCATION, T_1_HOUR, POSTED_1H, HREF_ABS, SRC_DRIBBBLE),
     Job(TITLE_C, COMPANY, LOCATION, T_2H, POSTED_2H, HREF_ABS, SRC_DRIBBBLE),
     Job(TITLE_A, COMPANY, LOCATION, T_1_HOUR, POSTED_1H_LATER, HREF_ABS, SRC_UP2STAFF),
     Job(TITLE_A, COMPANY, LOCATION, T_1_HOUR, POSTED_1H, HREF_ABS, SRC_BUILTIN),
     Job(strip(TITLE_B), COMPANY, LOCATION, strip(T_1_HOUR_CAPS), POSTED_1H_LATER, URL_OTHER,
         SRC_BUILTIN),
     Job(TITLE_C, COMPANY, LOCATION, T_2H, POSTED_2H, HREF_ABS, SRC_BUILTIN),
     Job(TITLE_A, COMPANY, LOCATION, T_1_HOUR, POSTED_1H, URL_OTHER, SRC_DRIBBBLE)}
\* the pools: every list of at most MaxPool of these records, repeats included
Pools == UNION {[1..n -> PoolRecords] : n \in 0..MaxPool}

\* the `with` block is over without an exception: every entry was processed,
\* the browser is closed, all_jobs is the raw pool
AggregationInit ==
    /\ TIME_THRESHOLD = DtMinus(DateTime(2025, 1, 10, 12, 0, 0, 0),
                                timedelta("hours", ThresholdHours))
    /\ pc = "save"
    /\ idx = Len(JOB_URL_CONFIGS) + 1
    /\ browser = "closed"
    /\ tabs = {}
    /\ jobs = <<>>
    /\ all_jobs \in Pools
    /\ feed = NoFeed
    /\ error = "none"
    /\ call = NoCall
    /\ seen = 0
    /\ posted_text = <<>>
    /\ clock = <<>>
    /\ returned = NotCalled

AggregationNext == save

SpecAggregation == AggregationInit /\ [][AggregationNext]_vars

(***************************************************************************)
(* Properties.                                                             *)
(***************************************************************************)
Range(list) == {list[i] : i \in 1..Len(list)}
\* the records of the feed (none while jobs.json is not written)
FeedJobs == IF feed.written THEN feed.jobs ELSE <<>>
\* every record an adapter has returned, wherever it is now
Emitted == Range(jobs) \cup Range(all_jobs) \cup Range(FeedJobs)
\* the url names a scheme and a host
IsAbsolute(url) == startswith(url, <<"h", "t", "t", "p", ":", "/",
        "/">>) \/ startswith(url, <<"h", "t", "t", "p", "s", ":", "/", "/">>)
\* the posted-time text can be normalized
Parseable(text) == TimeShape(text).kind # "none"
\* the time a record carries
PostedAt(job) == strptime(job.posted_datetime)

PoolWith(key) == {i \in 1..Len(all_jobs) : dedupe_key(all_jobs[i]) = key}
FeedWith(key) == {i \in 1..Len(FeedJobs) : dedupe_key(FeedJobs[i]) = key}
\* C2 as stated: of the records of the pool with one url the feed holds exactly
\* one, the first of them in the pool.
C2_OnePerUrl ==
    feed.written =>
        \A i \in 1..Len(all_jobs) :
            LET same == {j \in 1..Len(all_jobs) : all_jobs[j].url = all_jobs[i].url}
            IN  {job \in Range(FeedJobs) : job.url = all_jobs[i].url}
                    = {all_jobs[SetMin(same)]}
\* C2 amended: records are the same posting when their dedup keys are equal (the
\* url, except for BuiltIn records: source, normalized title and normalized
\* posted text); of the records of the pool with one key the feed holds exactly
\* one, the first of them in the pool.
C2_OnePerKey ==
    feed.written =>
        \A i \in 1..Len(all_jobs) :
            /\ Cardinality(FeedWith(dedupe_key(all_jobs[i]))) = 1
            /\ \A k \in FeedWith(dedupe_key(all_jobs[i])) :
                   FeedJobs[k] = all_jobs[SetMin(PoolWith(dedupe_key(all_jobs[i])))]
\* a feed made from a pool with two different records of one url, neither from BuiltIn
C2_Witness ==
    /\ feed.written
    /\ \E i, j \in 1..Len(all_jobs) :
          /\ i < j
          /\ all_jobs[i].url = all_jobs[j].url
          /\ all_jobs[i] # all_jobs[j]
          /\ all_jobs[i].source # SRC_BUILTIN /\ all_jobs[j].source # SRC_BUILTIN
          /\ all_jobs[i] \in Range(FeedJobs)

\* C3: in the feed every record is at least as recent as the one after it.
C3_NewestFirst ==
    \A i \in 1..(Len(FeedJobs) - 1) :
        DtLessEq(PostedAt(FeedJobs[i + 1]), PostedAt(FeedJobs[i]))
\* a feed whose records the pool held in the opposite order
C3_Witness ==
    /\ Len(FeedJobs) = 2 /\ Len(all_jobs) = 2
    /\ FeedJobs[1] = all_jobs[2] /\ FeedJobs[2] = all_jobs[1]
    /\ DtGreater(PostedAt(FeedJobs[1]), PostedAt(FeedJobs[2]))

C5_EntryFailureContained ==
    pc = "aborted" => error \notin {"new_page", "page_close"}

\* C6: at most one tab is open, and it is the tab of the entry being processed;
\* an entry's tab is closed once its adapter has returned and the results are
\* taken; an API entry has no tab; no tab is open when the run has ended.
C6_TabRelease ==
    /\ Cardinality(tabs) <= 1
    /\ tabs \subseteq {idx}
    /\ pc \in {"entry", "save", "done", "aborted"} => tabs = {}
    /\ (pc \in {"call", "extend"} /\ scraper_type \notin browser_required_types) => tabs = {}
    /\ (pc \in {"call", "extend"} /\ scraper_type \in browser_required_types) => tabs = {idx}
\* two page entries are done, records were taken, and their tabs are closed
C6_Witness ==
    /\ pc = "entry" /\ idx = 3 /\ tabs = {} /\ all_jobs # <<>>

\* C7 as stated: no record has an empty url.
C7_UrlNonEmpty ==
    \A job \in Emitted : job.url # <<>>

\* C8 as stated: every record has an absolute url.
C8_UrlAbsolute ==
    \A job \in Emitted : IsAbsolute(job.url)

\* C9: a record is emitted only for a listing whose posted-time text can be
\* normalized: an adapter returns no more records than its page had such
\* listings, and every record an adapter returns, and every record of the feed,
\* carries a text that can be normalized and the time it was normalized to.
C9_UnparseableDropped ==
    /\ \A job \in Range(jobs) \cup Range(FeedJobs) :
           Parseable(job.posted_ago) /\ Len(job.posted_datetime) = 19
    /\ pc = "extend" =>
           Len(jobs) <= Cardinality({i \in 1..Len(call.items) :
                                        Parseable(strip(call.items[i].posted))})
\* an adapter returned a record from a page that also had a listing whose time
\* cannot be normalized
C9_Witness ==
    /\ pc = "extend" /\ Len(jobs) = 1 /\ Len(call.items) = 2
    /\ \E i \in 1..Len(call.items) : ~Parseable(strip(call.items[i].posted))

\* C10 as stated: a page adapter whose wait for the listing containers timed out
\* returns an empty list.
C10_TimeoutYieldsNothing ==
    (pc = "extend" /\ call.timed_out) => jobs = <<>>
\* ---- parse_job_time on its own (SpecNormalizer) ---------------------------
\* the instant of a call during which the clock stands still
Now == clock[1]
Instant == clock[1] = clock[3]

\* C11: a word form "<N> <unit>[s] ago" and the shorthand form "<N><u> ago" with
\* the same N and unit give, at the same clock, the same time: the time of the
\* clock less N units.
C11_WordShorthandEquivalent ==
    returned.done =>
        \A n \in Counts, u \in 1..4 :
            /\ posted_text \in {WordText(n, u, TRUE), WordText(n, u, FALSE), ShortText(n, u)} =>
                   returned.value = Some(DtMinus(Now, timedelta(UnitNames[u], int(n))))
            /\ posted_text \in {WordText(n, u, TRUE), WordText(n, u, FALSE)} =>
                   returned.value = Resolve(TimeShape(ShortText(n, u)), clock)
            /\ posted_text = ShortText(n, u) =>
                   returned.value = Resolve(TimeShape(WordText(n, u, TRUE)), clock)
\* "3 hours ago" at 2025-01-10 12:00:00 has given 2025-01-10 09:00:00
C11_Witness ==
    /\ returned.done
    /\ posted_text = WordText(<<"3">>, 2, TRUE)
    /\ Now = DateTime(2025, 1, 10, 12, 0, 0, 0)
    /\ returned.value = Some(DateTime(2025, 1, 10, 9, 0, 0, 0))

\* the date month-day in the year y, at midnight
MonthDayIn(y, m, d) == DateTime(y, m, d, 0, 0, 0, 0)
\* C12 as stated: at any instant, a text "<Mon> <dd>" naming a date of the
\* instant's year gives that date when it is not after the instant, and the same
\* date of the year before otherwise; the result is never after the instant.
C12_MonthNameRollback ==
    (returned.done /\ Instant) =>
        \A m \in 1..12, d \in Days :
            (/\ posted_text = MonthDayText(m, d)
             /\ d <= DaysInMonth(YearOf(Now), m)
             /\ DtGreater(MonthDayIn(YearOf(Now), m, d), Now) =>
                    d <= DaysInMonth(YearOf(Now) - 1, m))
            => /\ returned.value =
                      Some(IF DtGreater(MonthDayIn(YearOf(Now), m, d), Now)
                           THEN MonthDayIn(YearOf(Now) - 1, m, d)
                           ELSE MonthDayIn(YearOf(Now), m, d))
               /\ returned.value.has => ~DtGreater(returned.value.dt, Now)

\* the four patterns of parse_job_time in the order of the code, each on its
\* own: the shape pattern k gives the cleaned text t, kind "none" when it
\* does not match or what it matched is no date
PatternShape(k, t) ==
    CASE k = 1 ->
           IF \E i \in 1..Len(t) : RelativeAt(t, i).ok
           THEN [kind |-> "relative",
                 value |-> re_search([i \in 1..Len(t) |-> RelativeAt(t, i)]).value,
                 unit |-> re_search([i \in 1..Len(t) |-> RelativeAt(t, i)]).unit]
           ELSE [kind |-> "none"]
      [] k = 2 ->
           IF \E i \in 1..Len(t) : ShorthandAt(t, i).ok
           THEN [kind |-> "shorthand",
                 value |-> re_search([i \in 1..Len(t) |-> ShorthandAt(t, i)]).value,
                 unit |-> re_search([i \in 1..Len(t) |-> ShorthandAt(t, i)]).unit]
           ELSE [kind |-> "none"]
      [] k = 3 ->
           IF /\ \E i \in 1..Len(t) : AbsoluteAt(t, i).ok
              /\ \E f \in 1..Len(formats) :
                    strptime_date(replace_char(
                        re_search([i \in 1..Len(t) |-> AbsoluteAt(t, i)]).text, "/", "-"),
                        formats[f]).ok
           THEN [kind |-> "absolute",
                 dt |-> TryFormats(replace_char(
                            re_search([i \in 1..Len(t) |-> AbsoluteAt(t, i)]).text, "/", "-"),
                            1).dt]
           ELSE [kind |-> "none"]
      [] k = 4 ->
           IF /\ \E i \in 1..Len(t) : MonthDayAt(t, i).ok
              /\ strptime_b_d(capitalize(
                     re_search([i \in 1..Len(t) |-> MonthDayAt(t, i)]).text)).ok
           THEN [kind |-> "monthday",
                 month |-> strptime_b_d(capitalize(
                     re_search([i \in 1..Len(t) |-> MonthDayAt(t, i)]).text)).month,
                 day |-> strptime_b_d(capitalize(
                     re_search([i \in 1..Len(t) |-> MonthDayAt(t, i)]).text)).day]
           ELSE [kind |-> "none"]
\* the patterns that give the text a time
Producing(t) == {k \in 1..4 : PatternShape(k, t).kind # "none"}

\* C19: parse_job_time returns what the first of the patterns word form,
\* shorthand, numeric date, month name + day that gives a time gives, whatever
\* the later ones match, and None exactly when none of them gives a time.
C19_ResolutionOrder ==
    returned.done =>
        /\ returned.value.has <=> Producing(CleanTime(posted_text)) # {}
        /\ Producing(CleanTime(posted_text)) # {} =>
               returned.value =
                   Resolve(PatternShape(SetMin(Producing(CleanTime(posted_text))),
                                        CleanTime(posted_text)), clock)
\* a text in which a shorthand form stands before a word form has given the time
\* of the word form; and one whose numeric date is no date that of its month name
C19_Witness ==
    /\ returned.done
    /\ \/ /\ posted_text = T_SHORT_THEN_WORD
          /\ Producing(CleanTime(posted_text)) = {1, 2}
          /\ returned.value = Some(DtMinus(Now, timedelta("hours", 2)))
       \/ /\ posted_text = T_BAD_DATE_THEN_MONTH
          /\ Producing(CleanTime(posted_text)) = {4}
          /\ returned.value.has

\* ---- scrape_all_jobs (Spec) -----------------------------------------------
\* what the aggregation makes of the pool
FeedOf(pool) == IF pool # <<>> THEN sorted_jobs(unique_jobs(pool)) ELSE <<>>

\* C13: a run ends either with jobs.json written, once, after every entry of the
\* registry was processed, from the pool of them all; or aborted by an exception,
\* with the exception reported and jobs.json not written.  A failed launch writes
\* nothing, and no feed is ever made of the pool of only some entries.
C13_RunOutcome ==
    /\ feed.written =>
           /\ pc = "done" /\ error = "none"
           /\ idx = Len(JOB_URL_CONFIGS) + 1
           /\ feed.jobs = FeedOf(all_jobs)
    /\ pc = "done" => feed.written
    /\ pc = "aborted" <=> error # "none"
    /\ pc = "aborted" => ~feed.written
    /\ error = "launch" => browser = "none" /\ all_jobs = <<>>
\* a run that had taken records from its first entries was aborted: no feed
C13_Witness ==
    /\ pc = "aborted" /\ idx > 2
    /\ all_jobs # <<>>
    /\ ~feed.written

\* C14: a run whose entries all gave no record ends as any other: it is not
\* aborted for that (only an exception aborts a run), and jobs.json is written
\* and holds the empty list.
C14_EmptyPool ==
    /\ (pc = "done" /\ all_jobs = <<>>) =>
           (feed = [written |-> TRUE, jobs |-> <<>>] /\ error = "none")
    /\ pc = "aborted" => error \in {"launch", "new_page", "page_close", "browser_close"}
\* the boards showed listings, none gave a record, and the empty feed is written
C14_Witness ==
    /\ pc = "done" /\ seen > 0
    /\ all_jobs = <<>>
    /\ feed = [written |-> TRUE, jobs |-> <<>>]

\* C15 as stated: the browser that was launched serves every page of the run,
\* and it is closed only after the last entry of the registry has been
\* processed, and closed when the run is done.
C15_SharedBrowserLifecycle ==
    /\ tabs # {} => browser = "open"
    /\ browser = "closed" => idx > Len(JOB_URL_CONFIGS)
    /\ pc = "done" => browser = "closed"

\* C16: every step of a run keeps the order of the registry.  The index moves
\* on by one, and only when the records of the entry it leaves have been put
\* at the end of the pool; the pool changes in no other way; an adapter is
\* called only for the entry of the index, with the list of the entry empty;
\* and jobs.json is written only after the last entry, once, from the pool.
C16_SequentialOrder ==
    [][/\ idx' \in {idx, idx + 1}
       /\ idx' = idx + 1 =>
              \/ pc = "start" /\ all_jobs' = all_jobs
              \/ pc = "extend" /\ all_jobs' = all_jobs \o jobs
       /\ all_jobs' # all_jobs => (pc = "extend" /\ all_jobs' = all_jobs \o jobs)
       /\ pc' = "call" => (idx' = idx /\ idx \in 1..Len(JOB_URL_CONFIGS))
       /\ (pc' = "call" /\ pc # "call") => jobs = <<>>
       /\ jobs' # jobs =>
              \/ pc = "call" /\ idx' = idx /\ call'.adapter = JOB_URL_CONFIGS[idx].type
              \/ pc = "extend" /\ jobs' = <<>>
       /\ feed' # feed =>
              /\ pc = "save" /\ ~feed.written
              /\ idx = Len(JOB_URL_CONFIGS) + 1
              /\ feed' = [written |-> TRUE, jobs |-> FeedOf(all_jobs)]
      ]_vars
\* the pool holds a record of the first entry and then one of the last entry
C16_Witness ==
    /\ pc = "save"
    /\ Len(all_jobs) = 2
    /\ all_jobs[1].source = SRC_DRIBBBLE
    /\ all_jobs[2].source = SRC_PRODUCTJOBSANYWHERE

\* two records count as one posting: two BuiltIn records when their titles are
\* equal once lower-cased with runs of whitespace made one space and their posted
\* texts are equal once lower-cased; two records of other sources when their
\* urls are equal; a BuiltIn record and a record of another source never
SamePosting(a, b) ==
    IF a.source = SRC_BUILTIN /\ b.source = SRC_BUILTIN
    THEN /\ normalized_title(a) = normalized_title(b)
         /\ normalized_posted_ago(a) = normalized_posted_ago(b)
    ELSE a.source # SRC_BUILTIN /\ b.source # SRC_BUILTIN /\ a.url = b.url
\* the records of the pool before which the pool holds none of the same posting
FirstSeen == {i \in 1..Len(all_jobs) :
                 \A j \in 1..(i - 1) : ~SamePosting(all_jobs[j], all_jobs[i])}

\* C17: the feed holds the first record of each posting of the pool and nothing
\* else, BuiltIn records being told apart by title and posted text whatever
\* their urls, and all other records by url alone.
C17_BuiltInKey ==
    feed.written =>
        /\ Len(feed.jobs) = Cardinality(FirstSeen)
        /\ \A i \in FirstSeen : all_jobs[i] \in Range(feed.jobs)
\* two BuiltIn records with different urls, equal in title and posted text up to
\* case and spacing: the feed holds the first and not the second
C17_Witness ==
    /\ feed.written
    /\ \E i, j \in 1..Len(all_jobs) :
          /\ i < j
          /\ all_jobs[i].source = SRC_BUILTIN /\ all_jobs[j].source = SRC_BUILTIN
          /\ all_jobs[i].url # all_jobs[j].url
          /\ all_jobs[i].title # all_jobs[j].title
          /\ SamePosting(all_jobs[i], all_jobs[j])
          /\ all_jobs[i] \in Range(feed.jobs)
          /\ all_jobs[j] \notin Range(feed.jobs)

\* a page that loads, whose listing containers appear, and that holds only w
PageOf(w) == [goto_ok |-> TRUE, wait_ok |-> TRUE, items |-> <<w>>]
\* the records the adapter of the given type returns for the container w alone,
\* read at t (for RemoteRocketship: under the k-th selector set)
Alone(type, url, k, w, t) ==
    CASE type = "dribbble" -> scrape_dribbble_jobs(PageOf(w), t)
      [] type = "remoterocketship" -> rr_collect(<<w>>, RR_ALL_SELECTORS[k], t)
      [] type = "builtin" -> scrape_builtin_jobs(PageOf(w), t)
      [] type = "up2staff_api" ->
             scrape_up2staff_api_jobs(url, [ok |-> TRUE, body |-> "json_html", items |-> <<w>>], t)
      [] type = "weworkremotely" -> scrape_weworkremotely_jobs(PageOf(w), t)
      [] type = "justremote" -> scrape_justremote_jobs(PageOf(w), t)
      [] type = "remote4africa" -> scrape_remote4africa_jobs(PageOf(w), t)
      [] type = "realworkfromanywhere" -> scrape_realworkfromanywhere_jobs(PageOf(w), t)
      [] type = "productjobsanywhere" -> scrape_productjobsanywhere_jobs(PageOf(w), t)
\* the adapter call of the entry went through its containers: it read some, and
\* did not return at a timeout of its wait (Product Jobs Anywhere goes on after
\* one, and RemoteRocketship reads containers only after a wait that succeeded)
LoopRan ==
    /\ pc = "extend" /\ call.items # <<>>
    /\ call.adapter \in {"productjobsanywhere", "remoterocketship"} \/ ~call.timed_out
\* the selector set in use when the call returned (1 for the other adapters)
LastPass == IF call.adapter = "remoterocketship" THEN Len(call.attempts) ELSE 1
\* the records of the containers the call read last
LastFound ==
    IF call.adapter = "remoterocketship"
    THEN SubSeq(jobs, Len(jobs) - call.attempts[Len(call.attempts)].found + 1, Len(jobs))
    ELSE jobs

\* C18: what an adapter call returns for its containers is, in their order,
\* what it returns for each of them alone: a container whose reading raises
\* gives nothing and takes nothing from the others.  No exception leaves an
\* adapter call: a run is aborted only before one, or by page.close() after one.
C18_PerItemIsolation ==
    /\ LoopRan =>
           \E t \in Readings(idx, LastPass) :
               LastFound = Flatten([i \in 1..Len(call.items) |->
                                       Alone(call.adapter, config.url, LastPass, call.items[i], t)])
    /\ pc = "aborted" => (call = NoCall \/ error = "page_close")
\* Dribbble showed a container whose reading raises and then a fresh one: the
\* call returned the record of the second
C18_Witness ==
    /\ pc = "extend" /\ call.adapter = "dribbble"
    /\ Len(call.items) = 2
    /\ call.items[1].broken /\ ~call.items[2].broken
    /\ Len(jobs) = 1

\* the selector sets of the call that gave records
Yielding == {k \in 1..Len(call.attempts) : call.attempts[k].found > 0}
\* C20: the list a call of scrape_remote_rocketship_jobs returns holds the
\* records of one selector set only: at most one of the sets tried gave records,
\* it is the last one tried, and the list holds its records and no others; when
\* every set yields no container, both were tried and the list is empty.
C20_SingleStrategy ==
    (pc = "extend" /\ call.adapter = "remoterocketship") =>
        /\ Cardinality(Yielding) <= 1
        /\ Yielding \subseteq {Len(call.attempts)}
        /\ Len(jobs) = (IF Yielding = {} THEN 0 ELSE call.attempts[Len(call.attempts)].found)
        /\ \A job \in Range(jobs) : job.source = SRC_REMOTEROCKETSHIP
        /\ (call.attempts # <<>> /\ \A k \in 1..Len(call.attempts) : call.attempts[k].items = 0) =>
               (Len(call.attempts) = Len(RR_ALL_SELECTORS) /\ jobs = <<>>)
\* V1 gave two records and V2 was not tried
C20_Witness ==
    /\ pc = "extend" /\ call.adapter = "remoterocketship"
    /\ Len(call.attempts) = 1
    /\ call.attempts[1].version = RR_SELECTORS_V1.version
    /\ call.attempts[1].found = 2 /\ Len(jobs) = 2
\* ---- the aggregation on its own (SpecAggregation) -------------------------
\* how many times a list holds a record
Occurrences(list, job) == Cardinality({i \in 1..Len(list) : list[i] = job})
\* the place in the pool of the first record with the dedupe key of the i-th
FirstOfKey(i) == SetMin(PoolWith(dedupe_key(all_jobs[i])))

\* C21: whatever the raw pool, the feed written from it is a permutation of a
\* sub-list of the pool (every record is in the feed at most as many times as in
\* the pool), no two records of the feed share a dedupe key, and every dedupe
\* key of the pool is in the feed, on the record that came first under it in the
\* pool.
C21_NeitherInventsNorLoses ==
    feed.written =>
        /\ \A job \in Range(feed.jobs) :
               Occurrences(feed.jobs, job) <= Occurrences(all_jobs, job)
        /\ \A k, l \in 1..Len(feed.jobs) :
               dedupe_key(feed.jobs[k]) = dedupe_key(feed.jobs[l]) => k = l
        /\ \A i \in 1..Len(all_jobs) :
               \E k \in 1..Len(feed.jobs) :
                   /\ dedupe_key(feed.jobs[k]) = dedupe_key(all_jobs[i])
                   /\ feed.jobs[k] = all_jobs[FirstOfKey(i)]
\* a feed written from a pool of three records, two of them different records
\* under one dedupe key: the feed holds the earlier one and not the later, and
\* begins with the record the pool ended with
C21_Witness ==
    /\ feed.written
    /\ Len(all_jobs) = 3 /\ Len(feed.jobs) = 2
    /\ dedupe_key(all_jobs[1]) = dedupe_key(all_jobs[2])
    /\ all_jobs[1] # all_jobs[2]
    /\ feed.jobs = <<all_jobs[3], all_jobs[1]>>

====
